---- MODULE Spec2Model ----
(***************************************************************************)
(* conda-vendor: a model of src/conda_vendor/conda_vendor.py.              *)
(*                                                                         *)
(* The `vendor` command is modelled as a sequential program whose program  *)
(* counter `pc` walks through vendor(), solve_environment(),               *)
(* create_repodata_json() / _reconstruct_repodata_json() and               *)
(* download_packages().  The external solver (conda-lock) and the network  *)
(* are inputs chosen nondeterministically from small sets.                 *)
(* _get_conda_platform() is a pure function, exercised by SpecPlatform.    *)
(***************************************************************************)
EXTENDS Integers, Sequences, FiniteSets, TLC

VARIABLES
    pc,                 \* position of the vendor run
    exit_code,          \* -1 while running, else the process exit status
    exit_reason,        \* what ended the process
    dry_run,            \* --dry-run
    ironbank_gen,       \* --ironbank-gen
    platform,           \* --platform
    dirs,               \* directories present on disk (paths)
    repodata,           \* repodata.json files on disk: directory path -> document
    artifacts,          \* other files on disk: file path -> bytes
    solver_calls,       \* number of calls of solve_specs_for_arch
    requests,           \* URLs requested through _improved_download
    solver_out,         \* <<>> or <<what solve_specs_for_arch returned>>
    solution,           \* <<>> or <<the solution after _remove_channel>>
    package_list,       \* the FETCH list vendor() works on
    stdout,             \* <<>> or <<the JSON document echoed by the dry run>>
    subdirs,            \* create_repodata_json: subdirs still to visit
    cur_subdir,         \* create_repodata_json: <<>> or <<subdir of the outer loop>>
    channels,           \* create_repodata_json: channels still to visit for cur_subdir
    live_repodata_json, \* _reconstruct_repodata_json: <<>> or <<fetched upstream document>>
    dl_i,               \* download_packages: index of the next pkg
    manifest,           \* <<>> or <<the resources written to ib_manifest.yaml>>
    file_data,          \* download_packages: bytes of the last fetched artifact
    connect_failures,   \* _improved_download: failed connection attempts of the call
    platform_arg,       \* _get_conda_platform: the argument (<<>> is None)
    sys_platform,       \* sys.platform of the host
    pointer_size,       \* struct.calcsize("P") of the host
    platform_result     \* <<>> or <<what _get_conda_platform returned or raised>>

vars == <<pc, exit_code, exit_reason, dry_run, ironbank_gen, platform, dirs,
          repodata, artifacts, solver_calls, requests, solver_out, solution,
          package_list, stdout, subdirs, cur_subdir, channels,
          live_repodata_json, dl_i, manifest, file_data, connect_failures,
          platform_arg, sys_platform, pointer_size, platform_result>>

vendor_vars == <<pc, exit_code, exit_reason, dry_run, ironbank_gen, platform, dirs,
          repodata, artifacts, solver_calls, requests, solver_out, solution,
          package_list, stdout, subdirs, cur_subdir, channels,
          live_repodata_json, dl_i, manifest, file_data>>

platform_vars == <<platform_arg, sys_platform, pointer_size, platform_result>>

retry_vars == <<connect_failures>>

-----------------------------------------------------------------------------
(* Bounds *)

\* longest list of packages the solver resolves
MaxFetch == 2

-----------------------------------------------------------------------------
(* Strings *)

\* str.startswith
StartsWith(s, prefix) ==
    /\ Len(prefix) <= Len(s)
    /\ SubSeq(s, 1, Len(prefix)) = prefix

\* the `in` operator on two strings
Contains(s, sub) ==
    \E i \in 1..(Len(s) - Len(sub) + 1) : SubSeq(s, i, i + Len(sub) - 1) = sub

-----------------------------------------------------------------------------
(* _get_conda_platform *)

\* dict lookup _platform_map[platform]; KeyError outside the keys
PlatformMapKeys == {"linux2", "linux", "darwin", "win32", "zos"}

_platform_map_identity_darwin(p) ==
    CASE p = "linux2" -> "linux"
      [] p = "linux"  -> "linux"
      [] p = "darwin" -> "darwin"
      [] p = "win32"  -> "win"
      [] p = "zos"    -> "zos"

_platform_map(p) ==
    CASE p = "linux2" -> "linux"
      [] p = "linux"  -> "linux"
      [] p = "darwin" -> "osx"
      [] p = "win32"  -> "win"
      [] p = "zos"    -> "zos"

\* arg is <<>> for None, else <<platform string>>.  The result is
\* [ok |-> TRUE, value |-> string] or [ok |-> FALSE, value |-> "KeyError"].
_get_conda_platform(arg, host, calcsize) ==
    IF arg # <<>>
    THEN [ok |-> TRUE, value |-> arg[1]]
    ELSE IF host \notin PlatformMapKeys
         THEN [ok |-> FALSE, value |-> "KeyError"]
         ELSE [ok |-> TRUE,
               value |-> _platform_map(host) \o "-" \o ToString(calcsize * 8)]

-----------------------------------------------------------------------------
(* Digests *)

HexDigitsLower == "0123456789abcdef"
HexDigitsUpper == "0123456789ABCDEF"

\* the n-th hexadecimal digit, lower case as hexdigest() prints it
HexDigit(n) == SubSeq(HexDigitsLower, n + 1, n + 1)

\* hashlib.sha256(data): the digest function, narrowed to 8 bits so that the
\* model can compute it (a polynomial hash over the bytes)
RECURSIVE sha256(_)
sha256(data) ==
    IF data = <<>> THEN 7
    ELSE (sha256(SubSeq(data, 1, Len(data) - 1)) * 31 + data[Len(data)]) % 256

\* .hexdigest(): two lower-case hexadecimal digits per byte
hexdigest(h) == HexDigit(h \div 16) \o HexDigit(h % 16)

\* str.lower restricted to hexadecimal digits
LowerChar(c) ==
    IF \E i \in 1..16 : SubSeq(HexDigitsUpper, i, i) = c
    THEN LET i == CHOOSE j \in 1..16 : SubSeq(HexDigitsUpper, j, j) = c
         IN  SubSeq(HexDigitsLower, i, i)
    ELSE c

RECURSIVE Lower(_)
Lower(s) ==
    IF Len(s) = 0 THEN ""
    ELSE LowerChar(SubSeq(s, 1, 1)) \o Lower(SubSeq(s, 2, Len(s)))

UpperChar(c) ==
    IF \E i \in 1..16 : SubSeq(HexDigitsLower, i, i) = c
    THEN LET i == CHOOSE j \in 1..16 : SubSeq(HexDigitsLower, j, j) = c
         IN  SubSeq(HexDigitsUpper, i, i)
    ELSE c

RECURSIVE Upper(_)
Upper(s) ==
    IF Len(s) = 0 THEN ""
    ELSE UpperChar(SubSeq(s, 1, 1)) \o Upper(SubSeq(s, 2, Len(s)))

-----------------------------------------------------------------------------
(* The inputs: what the solver resolves and what the network serves *)

Subdirs == {"linux-64", "noarch", "osx-64"}

\* the channel the environment file names, and conda-lock's channel of
\* virtual packages (virt_pkgs.channel.url)
UpstreamBase == "https://c"
VirtualChannelUrl == "file:///v"

\* artifact bytes the network may serve
ArtifactBytes == {<<10, 1>>, <<10, 2>>, <<11, 1>>}

\* the bytes upstream publishes for a package
PublishedBytes(name) == IF name = "foo" THEN <<10, 1>> ELSE <<10, 2>>

Extension(name) == IF name = "bar" THEN ".conda" ELSE ".tar.bz2"

\* one resolved package; FetchAction (lines 56-72) and, for the LINK action,
\* dist_name and base_url
Package(name, subdir, base, digest) ==
    [name     |-> name,
     fn       |-> name \o Extension(name),
     subdir   |-> subdir,
     channel  |-> base \o "/" \o subdir,
     url      |-> base \o "/" \o subdir \o "/" \o name \o Extension(name),
     sha256   |-> digest,
     base_url |-> base]

\* the digest upstream publishes for a package, as hexdigest() would print it
PublishedDigest(name) == hexdigest(sha256(PublishedBytes(name)))

\* packages of the upstream channel: the solver reports the digest in lower
\* or in upper case hexadecimal
RealPackages ==
    { Package(n, sd, UpstreamBase, dg) :
        n \in {"foo", "bar", "baz"}, sd \in Subdirs,
        dg \in {"lower", "upper"} }

CasedPackage(p) ==
    [p EXCEPT !.sha256 = IF p.sha256 = "lower" THEN PublishedDigest(p.name)
                         ELSE Upper(PublishedDigest(p.name))]

\* the virtual package conda-lock injects
VirtualPackages == { Package("__glibc", "linux-64", VirtualChannelUrl, "00") }

Packages == { CasedPackage(p) : p \in RealPackages } \cup VirtualPackages

FetchOf(p) ==
    [name |-> p.name, fn |-> p.fn, subdir |-> p.subdir, channel |-> p.channel,
     url |-> p.url, sha256 |-> p.sha256]

\* a LINK action, with the repodata_record.json the package cache holds for it
LinkOf(p) ==
    [dist_name |-> p.name, base_url |-> p.base_url, repodata_record |-> FetchOf(p)]

FetchActions(r) == [i \in 1..Len(r) |-> FetchOf(r[i])]

LinkActions(r) == [i \in 1..Len(r) |-> LinkOf(r[i])]

RemoveAt(s, i) == SubSeq(s, 1, i - 1) \o SubSeq(s, i + 1, Len(s))

\* an environment resolves to at most one package per name
ResolvedLists ==
    UNION { { r \in [1..n -> Packages] :
                \A i, j \in 1..n : i # j => r[i].name # r[j].name } :
            n \in 0..MaxFetch }

\* what solve_specs_for_arch may return.  A package found in the package
\* cache has a LINK action and no FETCH action.
SolverResults ==
    UNION { { [success |-> ok,
               actions |-> [FETCH |-> FetchActions(IF c = 0 THEN r ELSE RemoveAt(r, c)),
                            LINK  |-> LinkActions(r)]] :
                ok \in BOOLEAN, c \in 0..Len(r) } :
            r \in ResolvedLists }
    \cup { [success |-> FALSE] }

\* upstream repodata.json documents the network may serve.  Metadata of an
\* entry: its partition and its name.
UpstreamEntry(part, fname) == [kind |-> part, fn |-> fname, build |-> 0]

PartitionOf(part, keys) == [k \in keys |-> UpstreamEntry(part, k)]

UpstreamKeySets ==
    { {}, {"foo.tar.bz2", "zzz.tar.bz2"}, {"foo.tar.bz2", "bar.conda"} }

UpstreamDocs ==
    { ("packages" :> PartitionOf("packages", a))
      @@ ("packages.conda" :> PartitionOf("packages.conda", b)) :
        a \in UpstreamKeySets, b \in UpstreamKeySets }
    \cup { <<>>,
           ("packages" :> PartitionOf("packages", {"foo.tar.bz2", "zzz.tar.bz2"})),
           ("packages.conda" :> PartitionOf("packages.conda", {"bar.conda"})) }

-----------------------------------------------------------------------------
(* Paths and the file system *)

Cwd == <<>>

\* vendored_root = Path.cwd() / environment_name
vendored_root == <<"env">>

Parent(path) == SubSeq(path, 1, Len(path) - 1)

\* Path.exists for a directory
Exists(d, path) == path \in d

\* Path.mkdir raises FileExistsError or FileNotFoundError instead of creating
MkdirRaises(d, path) == path \in d \/ Parent(path) \notin d

\* open(dir / name, "w") raises FileNotFoundError when dir is missing
OpenRaises(d, dir) == dir \notin d

\* an index left behind by an earlier run
StaleRepodata ==
    ("info" :> [subdir |-> "noarch"])
    @@ ("packages" :> PartitionOf("packages", {"old.tar.bz2"}))
    @@ ("packages.conda" :> PartitionOf("packages.conda", {}))

-----------------------------------------------------------------------------
(* _remove_channel, lines 168-195 *)

_remove_channel_exact(sol, channel) ==
    [sol EXCEPT !.actions =
        [FETCH |-> SelectSeq(sol.actions.FETCH, LAMBDA e : e.channel # channel),
         LINK  |-> SelectSeq(sol.actions.LINK, LAMBDA e : e.base_url # channel)]]

_remove_channel(sol, channel) ==
    [sol EXCEPT !.actions =
        [FETCH |-> SelectSeq(sol.actions.FETCH,
                             LAMBDA e : ~StartsWith(e.channel, channel)),
         LINK  |-> SelectSeq(sol.actions.LINK, LAMBDA e : e.base_url # channel)]]

\* conda-lock's _reconstruct_fetch_actions: a LINK action whose dist_name has
\* no FETCH action gets one, built from the package cache
reconstruct_fetch_actions(sol) ==
    LET fetch_names == { sol.actions.FETCH[i].name : i \in DOMAIN sol.actions.FETCH }
        link_only   == SelectSeq(sol.actions.LINK,
                                 LAMBDA l : l.dist_name \notin fetch_names)
    IN  [sol EXCEPT !.actions.FETCH =
            @ \o [i \in 1..Len(link_only) |-> link_only[i].repodata_record]]

\* line 251
SolveFailed_never(sol) == FALSE

SolveFailed(sol) == ~sol.success

-----------------------------------------------------------------------------
(* _reconstruct_repodata_json, lines 308-333 *)

\* dict.get(key, {})
Get(doc, key) == IF key \in DOMAIN doc THEN doc[key] ELSE <<>>

\* lines 325-327 and 330-332: the entries of one partition that are kept
Retained_all(partition, names) == partition

Retained(partition, names) ==
    [name \in { n \in DOMAIN partition : n \in names } |-> partition[name]]

\* line 314
valid_names(pkgs) == { pkgs[i].fn : i \in DOMAIN pkgs }

\* repo_data built from the partitions the upstream document has
repo_data_upstream_partitions(dest_dir, pkgs, live) ==
    ("info" :> [subdir |-> dest_dir[Len(dest_dir)]])
    @@ [part \in DOMAIN live |-> Retained(live[part], valid_names(pkgs))]

\* the repo_data written to dest_dir/repodata.json
repo_data(dest_dir, pkgs, live) ==
    ("info" :> [subdir |-> dest_dir[Len(dest_dir)]])
    @@ ("packages" :> Retained(Get(live, "packages"), valid_names(pkgs)))
    @@ ("packages.conda" :> Retained(Get(live, "packages.conda"), valid_names(pkgs)))

-----------------------------------------------------------------------------
(* download_packages, lines 431-432 *)

Accepts_unverified(pkg, data) == TRUE

\* the artifact is written iff the computed digest equals pkg["sha256"]
Accepts(pkg, data) == hexdigest(sha256(data)) = pkg.sha256

-----------------------------------------------------------------------------
(* yaml_dump_ironbank_manifest, lines 452-464 *)

resources(pkgs) ==
    [i \in 1..Len(pkgs) |->
        [url |-> pkgs[i].url, filename |-> pkgs[i].fn,
         validation |-> [type |-> "sha256", value |-> pkgs[i].sha256]]]

-----------------------------------------------------------------------------
(* The vendor command, lines 559-635 *)

\* the default of --platform (line 539) on the host the model runs on
HostPlatform == _get_conda_platform(<<>>, "linux", 8)

\* sys.exit(code) and uncaught exceptions
Exit(code, reason) ==
    /\ pc' = "exit"
    /\ exit_code' = code
    /\ exit_reason' = reason

\* lines 627-628: what vendor() calls after a solve, in order
VendorStages_download_first == <<"download_packages", "create_repodata_json">>

VendorStages == <<"create_repodata_json", "download_packages">>

StageAfter(stage) ==
    LET i == CHOOSE j \in 1..Len(VendorStages) : VendorStages[j] = stage
    IN  IF i < Len(VendorStages) THEN VendorStages[i + 1] ELSE "finish"

\* line 611: the dry run skips the three mkdir calls
SkipsMkdir_never(dry) == FALSE

SkipsMkdir(dry) == dry

InitVendor ==
    /\ pc = "vendor"
    /\ exit_code = -1
    /\ exit_reason = ""
    /\ dry_run \in BOOLEAN
    /\ ironbank_gen \in BOOLEAN
    /\ platform = HostPlatform.value
    /\ \E root_exists \in BOOLEAN :
         IF root_exists
         THEN /\ dirs = {Cwd, vendored_root, vendored_root \o <<"noarch">>}
              /\ repodata = (vendored_root \o <<"noarch">>) :> StaleRepodata
         ELSE /\ dirs = {Cwd}
              /\ repodata = <<>>
    /\ artifacts = <<>>
    /\ solver_calls = 0
    /\ requests = {}
    /\ solver_out = <<>>
    /\ solution = <<>>
    /\ package_list = <<>>
    /\ stdout = <<>>
    /\ subdirs = {}
    /\ cur_subdir = <<>>
    /\ channels = {}
    /\ live_repodata_json = <<>>
    /\ dl_i = 1
    /\ manifest = <<>>
    /\ file_data = <<>>
    /\ connect_failures = 0

InitPlatformIdle ==
    /\ platform_arg = <<>>
    /\ sys_platform = "linux"
    /\ pointer_size = 8
    /\ platform_result = <<HostPlatform>>

Init == InitVendor /\ InitPlatformIdle

\* lines 603-616, with a destination check that lets an existing root pass
\* (mkdir with exist_ok)
VendorStart_exist_ok ==
    /\ pc = "vendor"
    /\ dirs' = IF dry_run THEN dirs
               ELSE dirs \cup {vendored_root, vendored_root \o <<platform>>,
                               vendored_root \o <<"noarch">>}
    /\ pc' = "solve_environment"
    /\ UNCHANGED <<exit_code, exit_reason, dry_run, ironbank_gen, platform,
                   repodata, artifacts, solver_calls, requests, solver_out,
                   solution, package_list, stdout, subdirs, cur_subdir, channels,
                   live_repodata_json, dl_i, manifest, file_data, platform_vars, retry_vars>>

\* lines 603-616: the destination check and the three mkdir calls
VendorStart ==
    /\ pc = "vendor"
    /\ IF Exists(dirs, vendored_root)
       THEN /\ Exit(1, "DestinationExists")
            /\ UNCHANGED dirs
       ELSE IF SkipsMkdir(dry_run)
       THEN /\ pc' = "solve_environment"
            /\ UNCHANGED <<dirs, exit_code, exit_reason>>
       ELSE LET d1 == dirs \cup {vendored_root}
                p2 == vendored_root \o <<platform>>
                d2 == d1 \cup {p2}
                p3 == vendored_root \o <<"noarch">>
            IN  IF MkdirRaises(dirs, vendored_root)
                THEN Exit(1, "FileExistsError") /\ UNCHANGED dirs
                ELSE IF MkdirRaises(d1, p2)
                THEN Exit(1, "FileExistsError") /\ dirs' = d1
                ELSE IF MkdirRaises(d2, p3)
                THEN Exit(1, "FileExistsError") /\ dirs' = d2
                ELSE /\ dirs' = d2 \cup {p3}
                     /\ pc' = "solve_environment"
                     /\ UNCHANGED <<exit_code, exit_reason>>
    /\ UNCHANGED <<dry_run, ironbank_gen, platform,
                   repodata, artifacts, solver_calls, requests, solver_out,
                   solution, package_list, stdout, subdirs, cur_subdir, channels,
                   live_repodata_json, dl_i, manifest, file_data, platform_vars, retry_vars>>

\* solve_environment, lines 230-249: the call of the external solver
SolveSpecsForArch ==
    /\ pc = "solve_environment"
    /\ \E sol \in SolverResults : solver_out' = <<sol>>
    /\ solver_calls' = solver_calls + 1
    /\ pc' = "remove_channel"
    /\ UNCHANGED <<exit_code, exit_reason, dry_run, ironbank_gen, platform, dirs,
                   repodata, artifacts, requests, solution, package_list, stdout,
                   subdirs, cur_subdir, channels, live_repodata_json, dl_i,
                   manifest, file_data, platform_vars, retry_vars>>

\* solve_environment, lines 250-255
RemoveChannel ==
    /\ pc = "remove_channel"
    /\ LET sol == solver_out[1]
       IN  IF "actions" \notin DOMAIN sol
           THEN /\ Exit(1, "KeyError")
                /\ UNCHANGED solution
           ELSE /\ solution' = <<_remove_channel(sol, VirtualChannelUrl)>>
                /\ IF SolveFailed(_remove_channel(sol, VirtualChannelUrl))
                   THEN Exit(1, "SolveFailure")
                   ELSE /\ pc' = "reconstruct_fetch_actions"
                        /\ UNCHANGED <<exit_code, exit_reason>>
    /\ UNCHANGED <<dry_run, ironbank_gen, platform, dirs, repodata, artifacts,
                   solver_calls, requests, solver_out, package_list, stdout,
                   subdirs, cur_subdir, channels, live_repodata_json, dl_i,
                   manifest, file_data, platform_vars, retry_vars>>

\* solve_environment, lines 260-261, and the return to vendor (line 618)
ReturnFetch ==
    /\ pc = "reconstruct_fetch_actions"
    /\ package_list' = reconstruct_fetch_actions(solution[1]).actions.FETCH
    /\ solver_out' = <<>>
    /\ solution' = <<>>
    /\ pc' = "solved"
    /\ UNCHANGED <<exit_code, exit_reason, dry_run, ironbank_gen, platform, dirs,
                   repodata, artifacts, solver_calls, requests, stdout,
                   subdirs, cur_subdir, channels, live_repodata_json, dl_i,
                   manifest, file_data, platform_vars, retry_vars>>

\* lines 622-625
DryRunComplete ==
    /\ pc = "solved"
    /\ dry_run
    /\ stdout' = <<package_list>>
    /\ Exit(0, "Dry Run Complete!")
    /\ UNCHANGED <<dry_run, ironbank_gen, platform, dirs, repodata, artifacts,
                   solver_calls, requests, solver_out, solution, package_list,
                   subdirs, cur_subdir, channels, live_repodata_json, dl_i,
                   manifest, file_data, platform_vars, retry_vars>>

\* line 627: the first call after the solve
VendorContinue ==
    /\ pc = "solved"
    /\ ~dry_run
    /\ pc' = VendorStages[1]
    /\ UNCHANGED <<exit_code, exit_reason, dry_run, ironbank_gen, platform, dirs,
                   repodata, artifacts, solver_calls, requests, solver_out,
                   solution, package_list, stdout, subdirs, cur_subdir, channels,
                   live_repodata_json, dl_i, manifest, file_data, platform_vars, retry_vars>>

\* create_repodata_json, lines 357-374: the sets the two loops run over.
\* The set of all channels is a function of package_list; `channels` holds
\* what the inner loop has left for the current subdir.
ChannelsOf(pkgs) == { pkgs[i].channel : i \in DOMAIN pkgs }

SubdirsOf(pkgs) == { pkgs[i].subdir : i \in DOMAIN pkgs }

CreateRepodataJson ==
    /\ pc = "create_repodata_json"
    /\ subdirs' = SubdirsOf(package_list)
    /\ channels' = {}
    /\ cur_subdir' = <<>>
    /\ pc' = "reconstruct_loop"
    /\ UNCHANGED <<exit_code, exit_reason, dry_run, ironbank_gen, platform, dirs,
                   repodata, artifacts, solver_calls, requests, solver_out,
                   solution, package_list, stdout, live_repodata_json, dl_i,
                   manifest, file_data, platform_vars, retry_vars>>

\* lines 385-386: the outer loop takes the next subdir, in the arbitrary
\* order of list(set(...)), and the inner generator selects its channels;
\* the locals of the previous _reconstruct_repodata_json call are gone
NextSubdir ==
    /\ pc = "reconstruct_loop"
    /\ channels = {}
    /\ \E s \in subdirs :
         /\ subdirs' = subdirs \ {s}
         /\ cur_subdir' = <<s>>
         /\ channels' = { ch \in ChannelsOf(package_list) : Contains(ch, s) }
    /\ live_repodata_json' = <<>>
    /\ UNCHANGED <<pc, exit_code, exit_reason, dry_run, ironbank_gen, platform,
                   dirs, repodata, artifacts, solver_calls, requests, solver_out,
                   solution, package_list, stdout, dl_i,
                   manifest, file_data, platform_vars, retry_vars>>

\* lines 390-394 and _reconstruct_repodata_json, lines 306-338: one call for
\* `channel`.  outcome is what _improved_download did: <<>> when it raised,
\* <<document>> when it returned a response.
Reconstruct(channel, outcome) ==
    LET repodata_url == channel \o "/repodata.json"
        dest_dir     == vendored_root \o cur_subdir
    IN  /\ channels' = channels \ {channel}
        /\ requests' = requests \cup {repodata_url}
        /\ IF outcome = <<>>
           THEN /\ Exit(1, "ConnectionError")
                /\ UNCHANGED <<live_repodata_json, repodata>>
           ELSE /\ live_repodata_json' = outcome
                /\ IF OpenRaises(dirs, dest_dir)
                   THEN /\ Exit(1, "FileNotFoundError")
                        /\ UNCHANGED repodata
                   ELSE /\ repodata' =
                             (dest_dir :> repo_data(dest_dir, package_list, outcome[1]))
                             @@ repodata
                        /\ UNCHANGED <<pc, exit_code, exit_reason>>
    /\ UNCHANGED <<dry_run, ironbank_gen, platform, dirs, artifacts, solver_calls,
                   solver_out, solution, package_list, stdout, subdirs, cur_subdir,
                   dl_i, manifest, file_data, platform_vars>>

\* every outcome of a request for one of `bodies`: it raises after its
\* retries, or it returns a response
AnyOutcome(bodies) == {<<>>} \cup { <<b>> : b \in bodies }

ReconstructRepodataJson ==
    /\ pc = "reconstruct_loop"
    /\ \E channel \in channels :
         \E outcome \in AnyOutcome(UpstreamDocs) : Reconstruct(channel, outcome)
    /\ UNCHANGED retry_vars

\* create_repodata_json returns: both loops are exhausted
CreateRepodataReturn ==
    /\ pc = "reconstruct_loop"
    /\ channels = {}
    /\ subdirs = {}
    /\ cur_subdir' = <<>>
    /\ live_repodata_json' = <<>>
    /\ pc' = StageAfter("create_repodata_json")
    /\ UNCHANGED <<exit_code, exit_reason, dry_run, ironbank_gen, platform, dirs,
                   repodata, artifacts, solver_calls, requests, solver_out,
                   solution, package_list, stdout, subdirs, channels, dl_i,
                   manifest, file_data, platform_vars, retry_vars>>

\* download_packages, lines 424-436: one iteration of the loop.  outcome is
\* what _improved_download did: <<>> when it raised, <<bytes>> when it
\* returned a response.
Download(outcome) ==
    /\ LET pkg      == package_list[dl_i]
           dest_dir == vendored_root \o <<pkg.subdir>>
       IN  IF ~Exists(dirs, dest_dir)
           THEN /\ Exit(1, "AssertionError")
                /\ UNCHANGED <<requests, file_data, artifacts, dl_i>>
           ELSE /\ requests' = requests \cup {pkg.url}
                /\ IF outcome = <<>>
                   THEN /\ Exit(1, "ConnectionError")
                        /\ UNCHANGED <<file_data, artifacts, dl_i>>
                   ELSE /\ file_data' = outcome[1]
                        /\ IF ~Accepts(pkg, outcome[1])
                           THEN /\ Exit(1, "SHA256 Checksum Validation Failed")
                                /\ UNCHANGED <<artifacts, dl_i>>
                           ELSE IF OpenRaises(dirs, dest_dir)
                           THEN /\ Exit(1, "FileNotFoundError")
                                /\ UNCHANGED <<artifacts, dl_i>>
                           ELSE /\ artifacts' =
                                     ((dest_dir \o <<pkg.fn>>) :> outcome[1]) @@ artifacts
                                /\ dl_i' = dl_i + 1
                                /\ UNCHANGED <<pc, exit_code, exit_reason>>
    /\ UNCHANGED <<dry_run, ironbank_gen, platform, dirs, repodata, solver_calls,
                   solver_out, solution, package_list, stdout, subdirs, cur_subdir,
                   channels, live_repodata_json, manifest, platform_vars>>

DownloadPackage ==
    /\ pc = "download_packages"
    /\ dl_i <= Len(package_list)
    /\ \E outcome \in AnyOutcome(ArtifactBytes) : Download(outcome)
    /\ UNCHANGED retry_vars

\* download_packages returns: the loop is exhausted
DownloadReturn ==
    /\ pc = "download_packages"
    /\ dl_i > Len(package_list)
    /\ file_data' = <<>>
    /\ pc' = StageAfter("download_packages")
    /\ UNCHANGED <<exit_code, exit_reason, dry_run, ironbank_gen, platform, dirs,
                   repodata, artifacts, solver_calls, requests, solver_out,
                   solution, package_list, stdout, subdirs, cur_subdir, channels,
                   live_repodata_json, dl_i, manifest, platform_vars, retry_vars>>

\* lines 630-635 and the normal end of the process
VendorFinish ==
    /\ pc = "finish"
    /\ manifest' = IF ironbank_gen THEN <<resources(package_list)>> ELSE manifest
    /\ pc' = "done"
    /\ exit_code' = 0
    /\ exit_reason' = "Vendoring Complete!"
    /\ UNCHANGED <<dry_run, ironbank_gen, platform, dirs, repodata, artifacts,
                   solver_calls, requests, solver_out, solution, package_list,
                   stdout, subdirs, cur_subdir, channels, live_repodata_json,
                   dl_i, file_data, platform_vars, retry_vars>>

Next ==
    \/ VendorStart
    \/ SolveSpecsForArch
    \/ RemoveChannel
    \/ ReturnFetch
    \/ DryRunComplete
    \/ VendorContinue
    \/ CreateRepodataJson
    \/ NextSubdir
    \/ ReconstructRepodataJson
    \/ CreateRepodataReturn
    \/ DownloadPackage
    \/ DownloadReturn
    \/ VendorFinish

Spec == Init /\ [][Next]_vars

-----------------------------------------------------------------------------
(* _get_conda_platform on every host and argument, lines 487-513 *)

\* arguments of the tests (test_conda_vendor.py, line 27), the empty string
\* and None
PlatformArgs ==
    { <<>>, <<"linux-64">>, <<"linux-32">>, <<"win-64">>, <<"win-32">>,
      <<"osx-64">>, <<"">> }

HostPlatforms == {"linux2", "linux", "darwin", "win32", "zos", "freebsd13", "cygwin"}

PointerSizes == {4, 8}

InitVendorIdle ==
    /\ pc = "idle"
    /\ exit_code = -1
    /\ exit_reason = ""
    /\ dry_run = FALSE
    /\ ironbank_gen = FALSE
    /\ platform = ""
    /\ dirs = {Cwd}
    /\ repodata = <<>>
    /\ artifacts = <<>>
    /\ solver_calls = 0
    /\ requests = {}
    /\ solver_out = <<>>
    /\ solution = <<>>
    /\ package_list = <<>>
    /\ stdout = <<>>
    /\ subdirs = {}
    /\ cur_subdir = <<>>
    /\ channels = {}
    /\ live_repodata_json = <<>>
    /\ dl_i = 1
    /\ manifest = <<>>
    /\ file_data = <<>>
    /\ connect_failures = 0

InitPlatform ==
    /\ InitVendorIdle
    /\ platform_arg \in PlatformArgs
    /\ sys_platform \in HostPlatforms
    /\ pointer_size \in PointerSizes
    /\ platform_result = <<>>

GetCondaPlatform ==
    /\ platform_result = <<>>
    /\ platform_result' = <<_get_conda_platform(platform_arg, sys_platform, pointer_size)>>
    /\ UNCHANGED <<platform_arg, sys_platform, pointer_size, vendor_vars, retry_vars>>

NextPlatform == GetCondaPlatform

SpecPlatform == InitPlatform /\ [][NextPlatform]_vars

-----------------------------------------------------------------------------
(* _improved_download with its retries, lines 278-283, and the run from the
   return of solve_environment on *)

\* Retry(connect=5)
MaxConnectRetries == 5

RetriesLeft_unbounded(failures) == TRUE

\* the adapter makes another attempt while at most connect=5 attempts failed
RetriesLeft(failures) == failures <= MaxConnectRetries

\* session.get(url) after `failures` failed connection attempts: a response
\* with one of `bodies`, or the error raised when the retries are used up
_improved_download(failures, bodies) ==
    IF RetriesLeft(failures) THEN { <<b>> : b \in bodies } ELSE {<<>>}

\* a call of _improved_download is in progress (lines 316 and 428)
RequestPending ==
    \/ pc = "reconstruct_loop" /\ channels # {}
    \/ /\ pc = "download_packages"
       /\ dl_i <= Len(package_list)
       /\ Exists(dirs, vendored_root \o <<package_list[dl_i].subdir>>)

\* one attempt of the pending request fails at the connection level
ConnectionFails ==
    /\ RequestPending
    /\ RetriesLeft(connect_failures)
    /\ connect_failures' = connect_failures + 1
    /\ UNCHANGED <<vendor_vars, platform_vars>>

ReconstructRepodataJsonRetried ==
    /\ pc = "reconstruct_loop"
    /\ \E channel \in channels :
         \E outcome \in _improved_download(connect_failures, UpstreamDocs) :
            /\ Reconstruct(channel, outcome)
            /\ connect_failures' = IF outcome = <<>> THEN connect_failures ELSE 0

DownloadPackageRetried ==
    /\ pc = "download_packages"
    /\ dl_i <= Len(package_list)
    /\ \E outcome \in _improved_download(connect_failures, ArtifactBytes) :
         /\ Download(outcome)
         /\ connect_failures' = IF outcome = <<>> THEN connect_failures ELSE 0

\* resolved lists of the upstream channel whose subdirectories vendor created
RetryLists ==
    { FetchActions(r) : r \in
        { l \in ResolvedLists :
            \A i \in DOMAIN l : /\ l[i].base_url = UpstreamBase
                                /\ l[i].subdir \in {HostPlatform.value, "noarch"}
                                /\ l[i].sha256 = PublishedDigest(l[i].name) } }

\* a non-dry run at the return of solve_environment (line 618)
InitRetry ==
    /\ pc = "solved"
    /\ exit_code = -1
    /\ exit_reason = ""
    /\ dry_run = FALSE
    /\ ironbank_gen = FALSE
    /\ platform = HostPlatform.value
    /\ dirs = {Cwd, vendored_root, vendored_root \o <<HostPlatform.value>>,
               vendored_root \o <<"noarch">>}
    /\ repodata = <<>>
    /\ artifacts = <<>>
    /\ solver_calls = 1
    /\ requests = {}
    /\ solver_out = <<>>
    /\ solution = <<>>
    /\ package_list \in RetryLists
    /\ stdout = <<>>
    /\ subdirs = {}
    /\ cur_subdir = <<>>
    /\ channels = {}
    /\ live_repodata_json = <<>>
    /\ dl_i = 1
    /\ manifest = <<>>
    /\ file_data = <<>>
    /\ connect_failures = 0
    /\ InitPlatformIdle

NextRetry ==
    \/ VendorContinue
    \/ CreateRepodataJson
    \/ NextSubdir
    \/ ConnectionFails
    \/ ReconstructRepodataJsonRetried
    \/ CreateRepodataReturn
    \/ DownloadPackageRetried
    \/ DownloadReturn
    \/ VendorFinish

\* the process is sequential and always takes its next step; an attempt of a
\* request ends with a response or a connection failure
SpecRetry == InitRetry /\ [][NextRetry]_vars /\ WF_vars(NextRetry)

-----------------------------------------------------------------------------
(* Properties *)

Keys(f) == DOMAIN f

ComputedDigest(data) == hexdigest(sha256(data))

\* a step of the download loop that received bytes for package_list[dl_i]
ReceivedBytes ==
    /\ pc = "download_packages"
    /\ dl_i <= Len(package_list)
    /\ \/ dl_i' = dl_i + 1
       \/ exit_reason' = "SHA256 Checksum Validation Failed"

\* C1: when the fetched bytes of a descriptor hash to a digest other than the
\* expected one, the run aborts in that step without writing any artifact
\* file, and after the abort no artifact file is ever written.
C1_MismatchAborts ==
    /\ [][(ReceivedBytes /\ ComputedDigest(file_data') # package_list[dl_i].sha256)
            => (/\ artifacts' = artifacts
                /\ pc' = "exit"
                /\ exit_code' = 1)]_vars
    /\ [][pc = "exit" => (artifacts' = artifacts /\ pc' = "exit")]_vars

\* the second of two downloads failed its check: the first artifact is on
\* disk, the second is not
C1_Witness ==
    /\ pc = "exit"
    /\ exit_reason = "SHA256 Checksum Validation Failed"
    /\ Len(package_list) = 2
    /\ dl_i = 2
    /\ ComputedDigest(file_data) # package_list[2].sha256
    /\ DOMAIN artifacts =
         { vendored_root \o <<package_list[1].subdir, package_list[1].fn>> }

\* C2: an artifact is accepted (written) if and only if its computed digest
\* equals the lower-cased expected digest: every artifact written so far
\* matches case-insensitively, and a run aborted by the checksum validation
\* received bytes whose digest differs from the lower-cased expected digest.
C2_CaseInsensitiveAcceptance ==
    /\ (pc = "download_packages" /\ dl_i <= Len(package_list) + 1) =>
          \A i \in 1..(dl_i - 1) :
             LET f == vendored_root \o <<package_list[i].subdir, package_list[i].fn>>
             IN  /\ f \in DOMAIN artifacts
                 /\ ComputedDigest(artifacts[f]) = Lower(package_list[i].sha256)
    /\ (pc = "exit" /\ exit_reason = "SHA256 Checksum Validation Failed") =>
          ComputedDigest(file_data) # Lower(package_list[dl_i].sha256)

\* C3: the index written by _reconstruct_repodata_json has as keys exactly the
\* filenames of the package list that are keys of the upstream document; each
\* kept entry is in its upstream partition with its upstream metadata.
C3_ReconstructedIndex ==
    (pc = "reconstruct_loop" /\ live_repodata_json # <<>>) =>
        LET U   == live_repodata_json[1]
            Up  == IF "packages" \in DOMAIN U THEN U["packages"] ELSE <<>>
            Uc  == IF "packages.conda" \in DOMAIN U THEN U["packages.conda"] ELSE <<>>
            out == repodata[vendored_root \o cur_subdir]
            D   == { package_list[i].fn : i \in DOMAIN package_list }
        IN  /\ Keys(out["packages"]) \cup Keys(out["packages.conda"])
                 = D \cap (Keys(Up) \cup Keys(Uc))
            /\ \A k \in Keys(out["packages"]) :
                 k \in Keys(Up) /\ out["packages"][k] = Up[k]
            /\ \A k \in Keys(out["packages.conda"]) :
                 k \in Keys(Uc) /\ out["packages.conda"][k] = Uc[k]
            /\ \A k \in (Keys(Up) \cup Keys(Uc)) \ D :
                 k \notin Keys(out["packages"]) \cup Keys(out["packages.conda"])

\* upstream lists foo (resolved) and zzz (not resolved) as simple archives and
\* foo and bar as compressed archives; the written index keeps foo in both
\* partitions and drops the rest
C3_Witness ==
    /\ pc = "reconstruct_loop"
    /\ live_repodata_json # <<>>
    /\ DOMAIN live_repodata_json[1] = {"packages", "packages.conda"}
    /\ Keys(live_repodata_json[1]["packages"]) = {"foo.tar.bz2", "zzz.tar.bz2"}
    /\ Keys(live_repodata_json[1]["packages.conda"]) = {"foo.tar.bz2", "bar.conda"}
    /\ Keys(repodata[vendored_root \o cur_subdir]["packages"]) = {"foo.tar.bz2"}
    /\ Keys(repodata[vendored_root \o cur_subdir]["packages.conda"]) = {"foo.tar.bz2"}

RECURSIVE IsSubsequence(_, _)
IsSubsequence(a, b) ==
    IF a = <<>> THEN TRUE
    ELSE IF b = <<>> THEN FALSE
    ELSE IF Head(a) = Head(b) THEN IsSubsequence(Tail(a), Tail(b))
    ELSE IsSubsequence(a, Tail(b))

\* C4: the FETCH list _remove_channel returns holds no descriptor whose channel
\* starts with the virtual channel URL, has |D| minus the number of such
\* descriptors of D entries, and keeps the others in their order.
C4_RemoveChannel ==
    solution # <<>> =>
        LET D == solver_out[1].actions.FETCH
            F == solution[1].actions.FETCH
            synthetic == { i \in DOMAIN D : StartsWith(D[i].channel, VirtualChannelUrl) }
        IN  /\ \A i \in DOMAIN F : ~StartsWith(F[i].channel, VirtualChannelUrl)
            /\ Len(F) = Len(D) - Cardinality(synthetic)
            /\ IsSubsequence(F, D)

\* the solver returned the virtual package first and a real one second
C4_Witness ==
    /\ solution # <<>>
    /\ Len(solver_out[1].actions.FETCH) = 2
    /\ StartsWith(solver_out[1].actions.FETCH[1].channel, VirtualChannelUrl)
    /\ solution[1].actions.FETCH = <<solver_out[1].actions.FETCH[2]>>

\* C5: when vendor starts and the mirror root exists, the run exits with code
\* 1 in its first step, the solver is not called, nothing is requested and
\* the disk is unchanged; nothing happens after the exit.
C5_DestinationExists ==
    /\ [][(pc = "vendor" /\ vendored_root \in dirs)
            => (/\ pc' = "exit"
                /\ exit_code' = 1
                /\ solver_calls' = 0
                /\ requests' = {}
                /\ dirs' = dirs
                /\ repodata' = repodata
                /\ artifacts' = artifacts
                /\ manifest' = manifest)]_vars
    /\ [][pc = "exit" => UNCHANGED <<pc, solver_calls, requests, dirs, repodata,
                                     artifacts, manifest>>]_vars

C5_Witness ==
    /\ pc = "exit"
    /\ exit_code = 1
    /\ exit_reason = "DestinationExists"
    /\ ~dry_run
    /\ solver_calls = 0
    /\ repodata = (vendored_root \o <<"noarch">>) :> StaleRepodata

\* C6: a dry run never changes the disk and never requests anything; after a
\* successful solve it echoes the resolved list and exits with code 0, and it
\* never reaches index reconstruction, download or the manifest.
C6_DryRun ==
    /\ [][dry_run => UNCHANGED <<dirs, repodata, artifacts, manifest, requests>>]_vars
    /\ [][(dry_run /\ pc = "solved")
            => (pc' = "exit" /\ exit_code' = 0 /\ stdout' = <<package_list>>)]_vars
    /\ [][dry_run' => pc' \in {"vendor", "solve_environment", "remove_channel",
                               "reconstruct_fetch_actions", "solved", "exit"}]_vars

C6_Witness ==
    /\ dry_run
    /\ ironbank_gen
    /\ pc = "exit"
    /\ exit_code = 0
    /\ stdout # <<>>
    /\ Len(stdout[1]) = 2
    /\ dirs = {Cwd}
    /\ manifest = <<>>

\* C7: once the solver has returned success = false, the run ends with a
\* non-zero exit code, nothing was requested or written, and the only
\* directories created are the mirror root and its two subdirectories of a
\* non-dry run.
C7_SolveFailure ==
    (solver_out # <<>> /\ ~solver_out[1].success /\ pc # "remove_channel") =>
        /\ pc = "exit"
        /\ exit_code \notin {0, -1}
        /\ requests = {}
        /\ repodata = <<>>
        /\ artifacts = <<>>
        /\ manifest = <<>>
        /\ dirs = IF dry_run THEN {Cwd}
                  ELSE {Cwd, vendored_root, vendored_root \o <<platform>>,
                        vendored_root \o <<"noarch">>}

C7_Witness ==
    /\ pc = "exit"
    /\ exit_reason = "SolveFailure"
    /\ ~dry_run
    /\ ~solver_out[1].success
    /\ Len(solver_out[1].actions.FETCH) = 2
    /\ vendored_root \in dirs

\* C8: _get_conda_platform returns an explicit argument unchanged; without
\* one, on a host linux, darwin, win32 or zos it returns <os>-<bits> with
\* linux->linux, darwin->osx, win32->win, zos->zos and bits 8 times the
\* pointer size.
C8_CondaPlatform ==
    platform_result # <<>> =>
        /\ platform_arg # <<>> =>
             platform_result[1] = [ok |-> TRUE, value |-> platform_arg[1]]
        /\ (platform_arg = <<>> /\ sys_platform \in {"linux", "darwin", "win32", "zos"}) =>
             LET os   == CASE sys_platform = "linux"  -> "linux"
                           [] sys_platform = "darwin" -> "osx"
                           [] sys_platform = "win32"  -> "win"
                           [] sys_platform = "zos"    -> "zos"
                 bits == IF pointer_size = 4 THEN "32" ELSE "64"
             IN  platform_result[1] = [ok |-> TRUE, value |-> os \o "-" \o bits]

C8_Witness ==
    /\ platform_arg = <<>>
    /\ sys_platform = "darwin"
    /\ pointer_size = 4
    /\ platform_result = <<[ok |-> TRUE, value |-> "osx-32"]>>

\* C9: every key of an index written by this run, in either partition, is the
\* filename of exactly one descriptor of the package list whose subdir is the
\* subdirectory the index was written into.
C9_KeysMatchSubdir ==
    solver_calls > 0 =>
        \A s \in Subdirs :
            (vendored_root \o <<s>>) \in DOMAIN repodata =>
                LET out == repodata[vendored_root \o <<s>>]
                IN  \A k \in Keys(out["packages"]) \cup Keys(out["packages.conda"]) :
                        Cardinality({ i \in DOMAIN package_list :
                                        /\ package_list[i].fn = k
                                        /\ package_list[i].subdir = s }) = 1

\* the upstream documents requested by a completed create_repodata_json
ReconstructionRequests ==
    { ch \o "/repodata.json" :
        ch \in { c \in ChannelsOf(package_list) :
                   \E s \in SubdirsOf(package_list) : Contains(c, s) } }

\* C10: a repodata.json or an artifact is written into a subdirectory of the
\* mirror only when that directory exists, and an artifact is written only
\* after create_repodata_json has requested every upstream index it
\* reconstructs from and has written the index of each such subdirectory.
C10_WriteOrder ==
    /\ [][\A d \in DOMAIN repodata' :
            (d \notin DOMAIN repodata \/ repodata'[d] # repodata[d]) => d \in dirs]_vars
    /\ [][\A f \in DOMAIN artifacts' :
            (f \notin DOMAIN artifacts \/ artifacts'[f] # artifacts[f])
               => Parent(f) \in dirs]_vars
    /\ [][artifacts' # artifacts =>
            /\ ReconstructionRequests \subseteq requests
            /\ \A s \in SubdirsOf(package_list) :
                 (\E c \in ChannelsOf(package_list) : Contains(c, s))
                    => (vendored_root \o <<s>>) \in DOMAIN repodata
            /\ subdirs = {} /\ channels = {}]_vars

\* both artifacts of a two-subdirectory list are on disk, after both indexes
C10_Witness ==
    /\ pc = "done"
    /\ Len(package_list) = 2
    /\ package_list[1].subdir # package_list[2].subdir
    /\ Cardinality(DOMAIN artifacts) = 2
    /\ Cardinality(DOMAIN repodata) = 2

\* C11: when a non-dry run has completed successfully, the target platform
\* subdirectory and noarch each hold a repodata.json (stated here for a
\* resolved list that is not empty; the empty list fails it as well).
C11_EverySubdirIndexed ==
    (pc = "done" /\ ~dry_run /\ package_list # <<>>) =>
        \A s \in {platform, "noarch"} :
            /\ (vendored_root \o <<s>>) \in dirs
            /\ (vendored_root \o <<s>>) \in DOMAIN repodata

\* a step of the reconstruction loop that received an upstream document and
\* whose destination directory exists
ReceivedDocument ==
    /\ pc = "reconstruct_loop"
    /\ channels # {}
    /\ channels' # channels
    /\ exit_reason' # "ConnectionError"
    /\ (vendored_root \o cur_subdir) \in dirs

MissingPartitions(doc) == {"packages", "packages.conda"} \ DOMAIN doc

\* C12: when the fetched upstream document lacks a partition, the call raises
\* nothing and writes a repodata.json that has both partition keys, keeps no
\* entry in a partition missing upstream, and has info.subdir equal to the
\* name of the destination subdirectory.
C12_MissingPartitionsAreEmpty ==
    [][(ReceivedDocument /\ MissingPartitions(live_repodata_json'[1]) # {}) =>
         LET dest == vendored_root \o cur_subdir
         IN  /\ pc' = "reconstruct_loop"
             /\ exit_code' = -1
             /\ dest \in DOMAIN repodata'
             /\ DOMAIN repodata'[dest] = {"info", "packages", "packages.conda"}
             /\ repodata'[dest]["info"].subdir = cur_subdir[1]
             /\ \A part \in MissingPartitions(live_repodata_json'[1]) :
                  DOMAIN repodata'[dest][part] = {}]_vars

\* upstream served a document with the packages partition only, which lists a
\* resolved file: the index has that entry and an empty packages.conda
C12_Witness ==
    /\ pc = "reconstruct_loop"
    /\ live_repodata_json # <<>>
    /\ DOMAIN live_repodata_json[1] = {"packages"}
    /\ (vendored_root \o cur_subdir) \in DOMAIN repodata
    /\ DOMAIN repodata[vendored_root \o cur_subdir]["packages"] = {"foo.tar.bz2"}
    /\ DOMAIN repodata[vendored_root \o cur_subdir]["packages.conda"] = {}

ArtifactPath(pkg) == vendored_root \o <<pkg.subdir, pkg.fn>>

\* C14: at every point of a run the artifact files on disk are those of the
\* first dl_i - 1 descriptors of the package list, and the bytes of each hash
\* to the expected digest of its descriptor.
C14_ArtifactsArePrefix ==
    /\ dl_i - 1 <= Len(package_list)
    /\ DOMAIN artifacts = { ArtifactPath(package_list[i]) : i \in 1..(dl_i - 1) }
    /\ \A i \in 1..(dl_i - 1) :
         ComputedDigest(artifacts[ArtifactPath(package_list[i])]) = package_list[i].sha256

\* the run was aborted by a network error at the second of two descriptors:
\* the first artifact is on disk, the second is not
C14_Witness ==
    /\ pc = "exit"
    /\ exit_reason = "ConnectionError"
    /\ ~dry_run
    /\ Len(package_list) = 2
    /\ dl_i = 2
    /\ DOMAIN artifacts = { ArtifactPath(package_list[1]) }

====
